---- MODULE Spec2Model ----
(***************************************************************************)
(* The multi-provider AI request router (class AIRouter) and the           *)
(* credential checks it relies on (lib/env); the rate limiter              *)
(* (lib/rate-limit) and the memory cache (lib/cache).                      *)
(*                                                                         *)
(* State: the process environment, one router's configuration and usage    *)
(* counters, the chat() calls in flight, and the record of the last call   *)
(* that completed a synchronous step; the clock, the RateLimiter instances *)
(* constructed, the rate limiter's store, the cache's map, and the calls   *)
(* of the two libraries that are waiting at an await.                      *)
(***************************************************************************)
EXTENDS Integers, Sequences, FiniteSets, TLC

VARIABLES env, config, requestCounts, inflight, last,
          now, limiters, rateLimitStore, memoryCache, awaiting

vars == <<env, config, requestCounts, inflight, last,
          now, limiters, rateLimitStore, memoryCache, awaiting>>

\* The state of lib/rate-limit and lib/cache.
libraries == <<now, limiters, rateLimitStore, memoryCache, awaiting>>

-----------------------------------------------------------------------------
(* Bounds of the model.                                                    *)

\* A usage counter never grows beyond MaxCount (guard of the selecting actions).
MaxCount == 3

\* Number of chat() calls that can be in flight at the same time.
MaxCalls == 2

CallIds == 1..MaxCalls

-----------------------------------------------------------------------------
(* Values.                                                                 *)

\* process.env.X when the variable is not set.
Undefined == "undefined"

\* The values an environment variable takes: unset, set to the empty string,
\* set to a key.
EnvValues == {Undefined, "", "sk-key"}

\* JavaScript's Boolean(v) on a string or undefined.
Boolean(v) == v # Undefined /\ v # ""

\* type AIProvider = 'openai' | 'anthropic' | 'auto'; "lmstudio" stands for a
\* name the router does not know.
DefaultProviderChoices == {"auto", "openai", "anthropic", "lmstudio"}

\* costPerToken is kept in units of 1e-6 per token, and scores in units of
\* 1e-6, so that the arithmetic of selectByCapabilities stays in the integers.
CostScale == 1000000

PROVIDER_INFO ==
  [openai |->
     [name |-> "openai", costPerToken |-> 30, speed |-> "fast",
      capabilities |-> [streaming |-> TRUE, functionCalling |-> TRUE,
                        vision |-> TRUE, maxTokens |-> 128000]],
   anthropic |->
     [name |-> "anthropic", costPerToken |-> 20, speed |-> "medium",
      capabilities |-> [streaming |-> TRUE, functionCalling |-> TRUE,
                        vision |-> TRUE, maxTokens |-> 200000]]]

\* A chat request, as far as the router reads it: the number of messages,
\* the total length of their contents, and whether a message's content is
\* an object of type 'image'.
Requests ==
  { [numMessages |-> 1,   textLength |-> 12000, hasImage |-> FALSE],
    [numMessages |-> 2,   textLength |-> 100,   hasImage |-> TRUE],
    [numMessages |-> 666, textLength |-> 10000, hasImage |-> FALSE],
    [numMessages |-> 667, textLength |-> 667,   hasImage |-> FALSE],
    [numMessages |-> 800, textLength |-> 12000, hasImage |-> FALSE] }

ConfigurationError == [type |-> "ConfigurationError"]

\* The Error thrown by executeChatRequest for a provider.
ProviderError(provider) == [type |-> "Error", provider |-> provider]

\* The response body executeChatRequest returns for a provider.
Stream(provider) == [body |-> provider]

NoCall == [pc |-> "idle"]

-----------------------------------------------------------------------------
(* lib/env                                                                 *)

\* A check that takes an unset variable for a configured one.
hasOpenAI_NotEmpty == env.OPENAI_API_KEY # ""

hasOpenAI == Boolean(env.OPENAI_API_KEY)

\* A check of the wrong variable.
hasAnthropic_WrongKey == Boolean(env.OPENAI_API_KEY)

hasAnthropic == Boolean(env.ANTHROPIC_API_KEY)

hasLMStudio == Boolean(env.LM_STUDIO_BASE_URL)

-----------------------------------------------------------------------------
(* AIRouter                                                                *)

\* { ...PROVIDER_INFO.x, available: true }
Available(info) ==
  [name |-> info.name, available |-> TRUE, costPerToken |-> info.costPerToken,
   speed |-> info.speed, capabilities |-> info.capabilities]

getAvailableProviders ==
  (IF hasOpenAI THEN <<Available(PROVIDER_INFO.openai)>> ELSE <<>>)
  \o (IF hasAnthropic THEN <<Available(PROVIDER_INFO.anthropic)>> ELSE <<>>)

\* Map.get(name) || 0
CountOf(counts, name) == IF name \in DOMAIN counts THEN counts[name] ELSE 0

\* Map.set(name, value)
MapSet(counts, name, value) ==
  [k \in DOMAIN counts \cup {name} |-> IF k = name THEN value ELSE counts[k]]

\* new Map() and Map.clear()
EmptyMap == [k \in {} |-> 0]

\* Array.prototype.find: the first element the name matches, as a sequence of
\* length 1, or the empty sequence for undefined.
FindByName(providers, name) ==
  LET hits == SelectSeq(providers, LAMBDA p : p.name = name)
  IN  IF hits = <<>> THEN <<>> ELSE <<hits[1]>>

\* selectProvider, lines 350-356: the provider the configuration names, when
\* it names one and that one is available.
\* Returns the named provider without looking it up among the available ones.
ExplicitProvider_Unchecked(this, providers) ==
  IF this.config.defaultProvider # "auto"
    THEN <<[name |-> this.config.defaultProvider]>>
    ELSE <<>>

\* Never honours the configured provider.
ExplicitProvider_Ignored(this, providers) == <<>>

\* Takes the first available provider when the named one is not found.
ExplicitProvider_OrFirst(this, providers) ==
  IF this.config.defaultProvider # "auto"
    THEN <<providers[1]>>
    ELSE <<>>

ExplicitProvider(this, providers) ==
  IF this.config.defaultProvider # "auto"
    THEN FindByName(providers, this.config.defaultProvider)
    ELSE <<>>

\* selectProvider, lines 363-365: reduce without an initial value, keeping
\* the earlier element unless the current one is strictly cheaper.
\* Replaces the provider kept so far also when the current one costs the same.
RECURSIVE ReduceCheapest_LastOnTie(_, _, _)
ReduceCheapest_LastOnTie(providers, i, cheapest) ==
  IF i > Len(providers) THEN cheapest
  ELSE ReduceCheapest_LastOnTie(providers, i + 1,
         IF providers[i].costPerToken <= cheapest.costPerToken
           THEN providers[i] ELSE cheapest)

RECURSIVE ReduceCheapest(_, _, _)
ReduceCheapest(providers, i, cheapest) ==
  IF i > Len(providers) THEN cheapest
  ELSE ReduceCheapest(providers, i + 1,
         IF providers[i].costPerToken < cheapest.costPerToken
           THEN providers[i] ELSE cheapest)

CheapestProvider(providers) == ReduceCheapest(providers, 2, providers[1])

\* let minCount = Infinity
Infinity == -1

\* The comparison turned around: the loop keeps the most used provider.
LessThan_Greater(count, minCount) == minCount = Infinity \/ count > minCount

LessThan(count, minCount) == minCount = Infinity \/ count < minCount

RECURSIVE LoadBalancingLoop(_, _, _, _, _)
LoadBalancingLoop(this, providers, i, minCount, selectedProvider) ==
  IF i > Len(providers) THEN selectedProvider
  ELSE LET count == CountOf(this.requestCounts, providers[i].name)
       IN  IF LessThan(count, minCount)
             THEN LoadBalancingLoop(this, providers, i + 1, count, providers[i])
             ELSE LoadBalancingLoop(this, providers, i + 1, minCount,
                                    selectedProvider)

\* Takes the first available provider without reading the counters.
selectByLoadBalancing_First(this, providers) == providers[1]

selectByLoadBalancing(this, providers) ==
  LoadBalancingLoop(this, providers, 1, Infinity, providers[1])

\* String(message) of an object that is not a string: "[object Object]".
ObjectStringLength == 15

\* request.messages?.join('').length || 0: the messages are objects, and
\* join turns each one into "[object Object]".
JoinedLength(request) == request.numMessages * ObjectStringLength

LongContextThreshold == 10000

needsLongContext(request) == JoinedLength(request) > LongContextThreshold

needsVision(request) == request.hasImage

LongContextTokens == 100000

\* The score of one provider, in units of 1/CostScale.
\* The cost penalty with a factor ten times too large.
Score_CostTimesMillion(provider, request) ==
  (CASE provider.speed = "fast" -> 3
     [] provider.speed = "medium" -> 2
     [] OTHER -> 1) * CostScale
  + (IF needsLongContext(request)
        /\ provider.capabilities.maxTokens > LongContextTokens
       THEN 5 * CostScale ELSE 0)
  - (IF needsVision(request) /\ ~provider.capabilities.vision
       THEN 10 * CostScale ELSE 0)
  - provider.costPerToken * 1000000

Score(provider, request) ==
  (CASE provider.speed = "fast" -> 3
     [] provider.speed = "medium" -> 2
     [] OTHER -> 1) * CostScale
  + (IF needsLongContext(request)
        /\ provider.capabilities.maxTokens > LongContextTokens
       THEN 5 * CostScale ELSE 0)
  - (IF needsVision(request) /\ ~provider.capabilities.vision
       THEN 10 * CostScale ELSE 0)
  - provider.costPerToken * 100000

\* Array.prototype.sort with (a, b) => b.score - a.score: stable, descending.
\* Insert x behind every element that does not score lower than x.
\* A sort that is not stable: x goes before the elements that score the same.
RECURSIVE InsertByScore_Unstable(_, _)
InsertByScore_Unstable(sorted, x) ==
  IF sorted = <<>> THEN <<x>>
  ELSE IF sorted[1].score > x.score
    THEN <<sorted[1]>> \o InsertByScore_Unstable(Tail(sorted), x)
    ELSE <<x>> \o sorted

RECURSIVE InsertByScore(_, _)
InsertByScore(sorted, x) ==
  IF sorted = <<>> THEN <<x>>
  ELSE IF sorted[1].score >= x.score
    THEN <<sorted[1]>> \o InsertByScore(Tail(sorted), x)
    ELSE <<x>> \o sorted

RECURSIVE SortByScore(_, _, _)
SortByScore(scores, i, sorted) ==
  IF i > Len(scores) THEN sorted
  ELSE SortByScore(scores, i + 1, InsertByScore(sorted, scores[i]))

\* Returns openai whether or not it is among the given providers.
selectByCapabilities_Hardcoded(providers, request) ==
  Available(PROVIDER_INFO.openai)

selectByCapabilities(providers, request) ==
  LET scores == [i \in 1..Len(providers) |->
                   [provider |-> providers[i],
                    score |-> Score(providers[i], request)]]
  IN  SortByScore(scores, 1, <<>>)[1].provider

\* selectProvider, lines 361-374: exactly one of the three strategies.
\* Load balancing consulted before cost optimization.
AutoSelect_BalanceFirst(this, providers, request) ==
  IF this.config.loadBalancing
    THEN <<selectByLoadBalancing(this, providers)>>
  ELSE IF this.config.costOptimization THEN <<CheapestProvider(providers)>>
  ELSE <<selectByCapabilities(providers, request)>>

AutoSelect(this, providers, request) ==
  IF this.config.costOptimization THEN <<CheapestProvider(providers)>>
  ELSE IF this.config.loadBalancing
    THEN <<selectByLoadBalancing(this, providers)>>
  ELSE <<selectByCapabilities(providers, request)>>

\* selectProvider, lines 381-384.
\* Writes the count of a first request instead of adding to the count read.
TrackRequest_Overwrite(counts, name) == MapSet(counts, name, 1)

TrackRequest(counts, name) == MapSet(counts, name, CountOf(counts, name) + 1)

\* selectProvider(request) on the router `this` (its config and its
\* requestCounts): whether it throws, what it throws or returns, and the
\* requestCounts it leaves.
selectProvider(this, request) ==
  LET availableProviders == getAvailableProviders
      explicit == ExplicitProvider(this, availableProviders)
      auto == AutoSelect(this, availableProviders, request)
      selectedProvider == IF auto = <<>> THEN availableProviders[1] ELSE auto[1]
  IN  IF Len(availableProviders) = 0
        THEN [threw |-> TRUE, value |-> ConfigurationError,
              requestCounts |-> this.requestCounts]
      ELSE IF explicit # <<>>
        THEN [threw |-> FALSE, value |-> explicit[1].name,
              requestCounts |-> this.requestCounts]
      ELSE [threw |-> FALSE, value |-> selectedProvider.name,
            requestCounts |-> TrackRequest(this.requestCounts,
                                           selectedProvider.name)]

\* chat, lines 455-458: the names of the available providers other than the
\* primary one.
\* Without the filter: the primary provider stays in the list.
FallbackProviders_Unfiltered(this, primaryProvider) ==
  [i \in 1..Len(getAvailableProviders) |-> getAvailableProviders[i].name]

FallbackProviders(this, primaryProvider) ==
  LET rest == SelectSeq(getAvailableProviders,
                        LAMBDA p : p.name # primaryProvider)
  IN  [i \in 1..Len(rest) |-> rest[i].name]

\* getStatistics, lines 500-511.
getStatistics(this) ==
  [provider \in DOMAIN this.requestCounts |->
     [requestCount |-> this.requestCounts[provider],
      info |-> PROVIDER_INFO[provider]]]

-----------------------------------------------------------------------------
(* Construction.                                                           *)

\* Number of library calls that can wait at an await at the same time.
MaxAwaiting == 2

AwaitIds == 1..MaxAwaiting

\* lib/rate-limit and lib/cache right after the modules are loaded: the clock
\* at its origin, no RateLimiter constructed, both maps empty, no call made.
LibrariesLoaded ==
  /\ now = 0
  /\ limiters = {}
  /\ rateLimitStore = EmptyMap
  /\ memoryCache = EmptyMap
  /\ awaiting = [c \in AwaitIds |-> NoCall]

\* An option of AIRouterConfig: <<>> when the caller leaves it out, <<v>>
\* when the caller gives v.
ConfigInputs ==
  [defaultProvider  : {<<>>} \cup {<<d>> : d \in DefaultProviderChoices},
   fallbackEnabled  : {<<>>, <<TRUE>>, <<FALSE>>},
   costOptimization : {<<>>, <<TRUE>>, <<FALSE>>},
   loadBalancing    : {<<>>, <<TRUE>>, <<FALSE>>}]

\* option ?? default (and option || default, no provider name being falsy)
OrDefault(option, default) == IF option = <<>> THEN default ELSE option[1]

Constructor(input) ==
  [defaultProvider  |-> OrDefault(input.defaultProvider, "auto"),
   fallbackEnabled  |-> OrDefault(input.fallbackEnabled, TRUE),
   costOptimization |-> OrDefault(input.costOptimization, FALSE),
   loadBalancing    |-> OrDefault(input.loadBalancing, FALSE)]

Init ==
  /\ env \in [OPENAI_API_KEY : EnvValues, ANTHROPIC_API_KEY : EnvValues]
  /\ \E input \in ConfigInputs : config = Constructor(input)
  /\ requestCounts = EmptyMap
  /\ inflight = [c \in CallIds |-> NoCall]
  /\ last = [op |-> "constructor"]
  /\ LibrariesLoaded

-----------------------------------------------------------------------------
(* Calls.                                                                  *)

\* The router: the fields of the AIRouter instance.
Router == [config |-> config, requestCounts |-> requestCounts]

WithinBound(counts) == \A p \in DOMAIN counts : counts[p] <= MaxCount

\* What a call did to the counters: the change of every counter it changed.
Delta(before, after) ==
  [p \in {q \in DOMAIN before \cup DOMAIN after :
            CountOf(after, q) # CountOf(before, q)}
     |-> CountOf(after, p) - CountOf(before, p)]

\* The providers an invocation of which threw during a chat call.
Threw(call) ==
  {call.invoked[i] : i \in {j \in 1..Len(call.outcomes) :
                               call.outcomes[j] = "threw"}}

\* The providers that threw during the chat call that settled just before.
FailedInvocations == IF last.op = "chat" THEN Threw(last) ELSE {}

SelectRecord(request, out) ==
  [op |-> "selectProvider", request |-> request, threw |-> out.threw,
   value |-> out.value, before |-> requestCounts]

\* The record of the selectProvider call a chat call starts with;
\* failedBefore tells whether the provider it returns had just thrown in the
\* chat call before.
StartRecord(request, out) ==
  [op |-> "selectProvider", request |-> request, threw |-> out.threw,
   value |-> out.value, before |-> requestCounts,
   failedBefore |-> out.value \in FailedInvocations]

\* A caller calls router.selectProvider(request).
SelectProviderCall(request) ==
  LET out == selectProvider(Router, request)
  IN  /\ WithinBound(out.requestCounts)
      /\ requestCounts' = out.requestCounts
      /\ last' = SelectRecord(request, out)
      /\ UNCHANGED <<env, config, inflight, libraries>>

\* The outcome of a chat() call that has settled.
ChatRecord(outcome, value, call) ==
  [op |-> "chat", outcome |-> outcome, value |-> value,
   primaryProvider |-> call.primaryProvider, invoked |-> call.invoked,
   outcomes |-> call.outcomes, counted |-> call.counted]

\* chat, lines 445-448: select the primary provider and start its invocation;
\* a throw of selectProvider rejects the promise chat returns.
\* A circuit breaker: a provider that has just thrown is passed over for
\* another available one.
ChatStart_AvoidsFailed(c, request) ==
  LET out == selectProvider(Router, request)
      others == FallbackProviders(Router, out.value)
      primary == IF out.value \in FailedInvocations /\ others # <<>>
                   THEN others[1] ELSE out.value
  IN  /\ inflight[c].pc = "idle"
      /\ WithinBound(out.requestCounts)
      /\ requestCounts' = out.requestCounts
      /\ IF out.threw
           THEN /\ last' = ChatRecord("rejected", out.value,
                             [primaryProvider |-> Undefined, invoked |-> <<>>,
                              outcomes |-> <<>>,
                              counted |-> Delta(requestCounts, out.requestCounts)])
                /\ UNCHANGED inflight
           ELSE /\ last' = StartRecord(request, out)
                /\ inflight' = [inflight EXCEPT ![c] =
                     [pc |-> "primary", primaryProvider |-> primary,
                      error |-> Undefined, fallbackProviders |-> <<>>,
                      index |-> 0, invoked |-> <<primary>>,
                      outcomes |-> <<>>,
                      counted |-> Delta(requestCounts, out.requestCounts)]]
      /\ UNCHANGED <<env, config, libraries>>

ChatStart(c, request) ==
  LET out == selectProvider(Router, request)
  IN  /\ inflight[c].pc = "idle"
      /\ WithinBound(out.requestCounts)
      /\ requestCounts' = out.requestCounts
      /\ IF out.threw
           THEN /\ last' = ChatRecord("rejected", out.value,
                             [primaryProvider |-> Undefined, invoked |-> <<>>,
                              outcomes |-> <<>>,
                              counted |-> Delta(requestCounts, out.requestCounts)])
                /\ UNCHANGED inflight
           ELSE /\ last' = StartRecord(request, out)
                /\ inflight' = [inflight EXCEPT ![c] =
                     [pc |-> "primary", primaryProvider |-> out.value,
                      error |-> Undefined, fallbackProviders |-> <<>>,
                      index |-> 0, invoked |-> <<out.value>>,
                      outcomes |-> <<>>,
                      counted |-> Delta(requestCounts, out.requestCounts)]]
      /\ UNCHANGED <<env, config, libraries>>

\* chat settles after an invocation has returned or thrown (result); invoked
\* lists the providers invoked so far and outcomes what each invocation did.
Settle(c, outcome, value, result) ==
  /\ last' = ChatRecord(outcome, value,
                [inflight[c] EXCEPT !.outcomes = Append(@, result)])
  /\ inflight' = [inflight EXCEPT ![c] = NoCall]

\* executeChatRequest returns response.body: chat returns it (lines 448, 463).
\* Without the return in the fallback loop: a fallback's result is dropped
\* and chat goes on to throw the primary provider's error.
ExecuteSucceeds_FallbackDropped(c) ==
  /\ inflight[c].pc \in {"primary", "fallback"}
  /\ IF inflight[c].pc = "primary"
       THEN Settle(c, "resolved", Stream(inflight[c].primaryProvider),
                   "returned")
       ELSE Settle(c, "rejected", inflight[c].error, "returned")
  /\ UNCHANGED <<env, config, requestCounts, libraries>>

ExecuteSucceeds(c) ==
  /\ inflight[c].pc \in {"primary", "fallback"}
  /\ Settle(c, "resolved",
            Stream(inflight[c].invoked[Len(inflight[c].invoked)]), "returned")
  /\ UNCHANGED <<env, config, requestCounts, libraries>>

\* executeChatRequest of the primary provider throws: chat, lines 449-463.
\* Without the test of fallbackEnabled: the alternates are always tried.
PrimaryFails_AlwaysFallback(c) ==
  LET call == inflight[c]
      error == ProviderError(call.primaryProvider)
      fallbackProviders == FallbackProviders(Router, call.primaryProvider)
  IN  /\ call.pc = "primary"
      /\ IF fallbackProviders = <<>>
           THEN Settle(c, "rejected", error, "threw")
           ELSE /\ inflight' = [inflight EXCEPT ![c] =
                     [call EXCEPT !.pc = "fallback", !.error = error,
                                  !.fallbackProviders = fallbackProviders,
                                  !.index = 1,
                                  !.outcomes = Append(@, "threw"),
                                  !.invoked = Append(@, fallbackProviders[1])]]
                /\ UNCHANGED last
      /\ UNCHANGED <<env, config, requestCounts, libraries>>

PrimaryFails(c) ==
  LET call == inflight[c]
      error == ProviderError(call.primaryProvider)
      fallbackProviders == FallbackProviders(Router, call.primaryProvider)
  IN  /\ call.pc = "primary"
      /\ IF ~config.fallbackEnabled \/ fallbackProviders = <<>>
           THEN Settle(c, "rejected", error, "threw")
           ELSE /\ inflight' = [inflight EXCEPT ![c] =
                     [call EXCEPT !.pc = "fallback", !.error = error,
                                  !.fallbackProviders = fallbackProviders,
                                  !.index = 1,
                                  !.outcomes = Append(@, "threw"),
                                  !.invoked = Append(@, fallbackProviders[1])]]
                /\ UNCHANGED last
      /\ UNCHANGED <<env, config, requestCounts, libraries>>

\* executeChatRequest of a fallback provider throws: chat, lines 464-469.
\* Throws the error of the last fallback instead of the primary one's.
FallbackFails_LastError(c) ==
  LET call == inflight[c]
  IN  /\ call.pc = "fallback"
      /\ IF call.index < Len(call.fallbackProviders)
           THEN /\ inflight' = [inflight EXCEPT ![c] =
                     [call EXCEPT !.index = @ + 1,
                                  !.outcomes = Append(@, "threw"),
                                  !.invoked = Append(@,
                                     call.fallbackProviders[call.index + 1])]]
                /\ UNCHANGED last
           ELSE Settle(c, "rejected",
                       ProviderError(call.fallbackProviders[call.index]),
                       "threw")
      /\ UNCHANGED <<env, config, requestCounts, libraries>>

\* A retry loop: when the last alternate has thrown, the call starts over
\* with its primary provider.
FallbackFails_StartOver(c) ==
  LET call == inflight[c]
  IN  /\ call.pc = "fallback"
      /\ IF call.index < Len(call.fallbackProviders)
           THEN /\ inflight' = [inflight EXCEPT ![c] =
                     [call EXCEPT !.index = @ + 1,
                                  !.outcomes = Append(@, "threw"),
                                  !.invoked = Append(@,
                                     call.fallbackProviders[call.index + 1])]]
           ELSE /\ inflight' = [inflight EXCEPT ![c] =
                     [call EXCEPT !.pc = "primary", !.index = 0,
                                  !.error = Undefined,
                                  !.fallbackProviders = <<>>,
                                  !.outcomes = <<>>,
                                  !.invoked = <<call.primaryProvider>>]]
      /\ UNCHANGED <<env, config, requestCounts, last, libraries>>

FallbackFails(c) ==
  LET call == inflight[c]
  IN  /\ call.pc = "fallback"
      /\ IF call.index < Len(call.fallbackProviders)
           THEN /\ inflight' = [inflight EXCEPT ![c] =
                     [call EXCEPT !.index = @ + 1,
                                  !.outcomes = Append(@, "threw"),
                                  !.invoked = Append(@,
                                     call.fallbackProviders[call.index + 1])]]
                /\ UNCHANGED last
           ELSE Settle(c, "rejected", call.error, "threw")
      /\ UNCHANGED <<env, config, requestCounts, libraries>>

\* The record of a call without the record of the call before it.
Brief(record) ==
  IF record.op = "getStatistics" THEN [op |-> "getStatistics"] ELSE record

\* Reports the counters and clears them.
GetStatisticsCall_Consumes ==
  /\ last' = [op |-> "getStatistics", value |-> getStatistics(Router),
              after |-> Brief(last)]
  /\ requestCounts' = EmptyMap
  /\ UNCHANGED <<env, config, inflight, libraries>>

GetStatisticsCall ==
  /\ last' = [op |-> "getStatistics", value |-> getStatistics(Router),
              after |-> Brief(last)]
  /\ UNCHANGED <<env, config, requestCounts, inflight, libraries>>

\* resetStatistics, lines 514-516.
ResetStatisticsCall ==
  /\ requestCounts' = EmptyMap
  /\ last' = [op |-> "resetStatistics"]
  /\ UNCHANGED <<env, config, inflight, libraries>>

GetAvailableProvidersCall ==
  /\ last' = [op |-> "getAvailableProviders", value |-> getAvailableProviders]
  /\ UNCHANGED <<env, config, requestCounts, inflight, libraries>>

Next ==
  \/ \E request \in Requests : SelectProviderCall(request)
  \/ \E c \in CallIds, request \in Requests : ChatStart(c, request)
  \/ \E c \in CallIds : ExecuteSucceeds(c)
  \/ \E c \in CallIds : PrimaryFails(c)
  \/ \E c \in CallIds : FallbackFails(c)
  \/ GetStatisticsCall
  \/ ResetStatisticsCall
  \/ GetAvailableProvidersCall

Spec == Init /\ [][Next]_vars

\* The router while no caller calls resetStatistics.
NextNoReset ==
  \/ \E request \in Requests : SelectProviderCall(request)
  \/ \E c \in CallIds, request \in Requests : ChatStart(c, request)
  \/ \E c \in CallIds : ExecuteSucceeds(c)
  \/ \E c \in CallIds : PrimaryFails(c)
  \/ \E c \in CallIds : FallbackFails(c)
  \/ GetStatisticsCall
  \/ GetAvailableProvidersCall

SpecNoReset == Init /\ [][NextNoReset]_vars

\* The router when every provider invocation settles: executeChatRequest
\* awaits fetch, whose promise resolves or rejects, and the event loop then
\* runs the continuation of the chat call that awaits it.
InvocationsSettle ==
  \A c \in CallIds :
    WF_vars(ExecuteSucceeds(c) \/ PrimaryFails(c) \/ FallbackFails(c))

SpecInvocationsSettle == Init /\ [][Next]_vars /\ InvocationsSettle

\* The router in a process whose environment configures LM Studio.
InitLMStudio ==
  /\ env \in [OPENAI_API_KEY : EnvValues, ANTHROPIC_API_KEY : EnvValues,
               LM_STUDIO_BASE_URL : {"http://localhost:1234"}]
  /\ \E input \in ConfigInputs : config = Constructor(input)
  /\ requestCounts = EmptyMap
  /\ inflight = [c \in CallIds |-> NoCall]
  /\ last = [op |-> "constructor"]
  /\ LibrariesLoaded

SpecLMStudio == InitLMStudio /\ [][Next]_vars

-----------------------------------------------------------------------------
(* lib/rate-limit                                                          *)

\* The clock stops at MaxTicks seconds.
MaxTicks == 3

\* A record's count never grows beyond MaxChecks (guard of the checks).
MaxChecks == 3

\* The router, which the libraries do not touch.
router == <<env, config, requestCounts, inflight>>

\* Date.now() advances, by one second.
Tick ==
  /\ now < MaxTicks * 1000
  /\ now' = now + 1000
  /\ UNCHANGED <<router, last, limiters, rateLimitStore, memoryCache, awaiting>>

\* The RateLimitConfig values limiters are constructed with: the interval in
\* milliseconds and the number of requests allowed in it.
RateLimitConfigs ==
  { [interval |-> 1000, uniqueTokenPerInterval |-> 2],
    [interval |-> 2000, uniqueTokenPerInterval |-> 1] }

\* identifier || getClientId(request)
ClientIds == {"ip:unknown"}

\* check, line 99: the key under which the limiter `limiter` counts the
\* client.
\* A key that also names the limiter's configuration.
RateLimitKey_PerLimiter(limiter, clientId) == <<"rate-limit", clientId, limiter>>

RateLimitKey(limiter, clientId) == <<"rate-limit", clientId>>

\* new RateLimitError(retryAfter)
RateLimitError(retryAfter) ==
  [type |-> "RateLimitError", retryAfter |-> retryAfter]

\* Map.delete(key)
MapDelete(map, key) == [k \in DOMAIN map \ {key} |-> map[k]]

\* The count and resetTime of a record of the store.
CountAndReset(record) ==
  [count |-> record.count, resetTime |-> record.resetTime]

\* RateLimitStore.increment, line 37: a new window starts.
StartsWindow(key) ==
  key \notin DOMAIN rateLimitStore \/ now > rateLimitStore[key].resetTime

\* RateLimitStore.increment(key, interval), called for `limiter`: the store
\* it leaves.  Besides count and resetTime a record tells when and for which
\* limiter it was created, and how many checks each limiter has made in it.
increment(key, limiter) ==
  IF StartsWindow(key)
    THEN MapSet(rateLimitStore, key,
           [count |-> 1, resetTime |-> now + limiter.interval,
            createdAt |-> now, createdBy |-> limiter,
            checks |-> [l \in limiters |-> IF l = limiter THEN 1 ELSE 0]])
    ELSE [rateLimitStore EXCEPT ![key].count = @ + 1,
                                ![key].checks[limiter] = @ + 1]

\* A check that waits at its await holds what increment returned: the record
\* of the store itself (line 44), or an object of its own (line 40).
NoRecord == [count |-> 0, resetTime |-> 0]

\* The objects of the store under `keys` stop being records of the store
\* (they are replaced or deleted): the checks that hold one keep it as it is.
Detach(calls, keys) ==
  [c \in AwaitIds |->
     IF calls[c].pc = "check" /\ calls[c].shared /\ calls[c].key \in keys
       THEN [calls[c] EXCEPT !.shared = FALSE,
                             !.record = CountAndReset(rateLimitStore[calls[c].key])]
       ELSE calls[c]]

\* limiter.check(request, identifier) up to its await, lines 98-101, called
\* directly or by the wrapper withRateLimit returns (lines 128-129).  k is the
\* count the call's own increment has left.
CheckStart(c, limiter, clientId, wrapped) ==
  LET key == RateLimitKey(limiter, clientId)
      store == increment(key, limiter)
      calls == IF StartsWindow(key) /\ key \in DOMAIN rateLimitStore
                 THEN Detach(awaiting, {key}) ELSE awaiting
  IN  /\ awaiting[c].pc = "idle"
      /\ limiter \in limiters
      /\ store[key].count <= MaxChecks
      /\ rateLimitStore' = store
      /\ awaiting' = [calls EXCEPT ![c] =
           [pc |-> "check", limiter |-> limiter, clientId |-> clientId,
            key |-> key, wrapped |-> wrapped, k |-> store[key].count,
            shared |-> ~StartsWindow(key),
            record |-> IF StartsWindow(key)
                         THEN CountAndReset(store[key]) ELSE NoRecord]]
      /\ UNCHANGED <<router, last, now, limiters, memoryCache>>

\* check, lines 101-109: what the call reads from the object it awaited, and
\* the result it returns.
Awaited(call) ==
  IF call.shared THEN CountAndReset(rateLimitStore[call.key]) ELSE call.record

Max(a, b) == IF a >= b THEN a ELSE b

CheckResult(call) ==
  LET limit == call.limiter.uniqueTokenPerInterval
  IN  [success |-> Awaited(call).count <= limit,
       limit |-> limit,
       remaining |-> Max(0, limit - Awaited(call).count),
       reset |-> Awaited(call).resetTime]

\* Math.ceil(x / 1000)
CeilSeconds(x) == -((-x) \div 1000)

\* The record of a check that has returned.
CheckRecord(call) ==
  [op |-> "check", limiter |-> call.limiter, clientId |-> call.clientId,
   k |-> call.k, value |-> CheckResult(call)]

\* The record of a call of a wrapped handler that has settled.
WrapperRecord(call, check, outcome, value, handlerCalled) ==
  [op |-> "withRateLimit", limiter |-> call.limiter,
   clientId |-> call.clientId, k |-> call.k, check |-> check,
   outcome |-> outcome, value |-> value, handlerCalled |-> handlerCalled]

\* check resumes after its await, lines 101-110; in the wrapper the caller
\* goes on, lines 129-145: it throws RateLimitError or calls the handler.
\* A wrapper that calls the handler whatever the check returned.
CheckFinish_HandlerAnyway(c) ==
  LET call == awaiting[c]
      result == CheckResult(call)
  IN  /\ call.pc = "check"
      /\ IF ~call.wrapped
           THEN /\ last' = CheckRecord(call)
                /\ awaiting' = [awaiting EXCEPT ![c] = NoCall]
           ELSE /\ awaiting' = [awaiting EXCEPT ![c] =
                     [pc |-> "handler", limiter |-> call.limiter,
                      clientId |-> call.clientId, k |-> call.k,
                      check |-> result]]
                /\ UNCHANGED last
      /\ UNCHANGED <<router, now, limiters, rateLimitStore, memoryCache>>

CheckFinish(c) ==
  LET call == awaiting[c]
      result == CheckResult(call)
  IN  /\ call.pc = "check"
      /\ IF ~call.wrapped
           THEN /\ last' = CheckRecord(call)
                /\ awaiting' = [awaiting EXCEPT ![c] = NoCall]
         ELSE IF ~result.success
           THEN /\ last' = WrapperRecord(call, result, "rejected",
                             RateLimitError(CeilSeconds(result.reset - now)),
                             FALSE)
                /\ awaiting' = [awaiting EXCEPT ![c] = NoCall]
           ELSE /\ awaiting' = [awaiting EXCEPT ![c] =
                     [pc |-> "handler", limiter |-> call.limiter,
                      clientId |-> call.clientId, k |-> call.k,
                      check |-> result]]
                /\ UNCHANGED last
      /\ UNCHANGED <<router, now, limiters, rateLimitStore, memoryCache>>

HandlerResponse == [type |-> "Response"]

HandlerError == [type |-> "Error"]

\* The wrapped handler returns or throws, lines 145-154: so does the wrapper.
HandlerSettles(c, threw) ==
  LET call == awaiting[c]
  IN  /\ call.pc = "handler"
      /\ last' = IF threw
                   THEN WrapperRecord(call, call.check, "rejected",
                                      HandlerError, TRUE)
                   ELSE WrapperRecord(call, call.check, "resolved",
                                      HandlerResponse, TRUE)
      /\ awaiting' = [awaiting EXCEPT ![c] = NoCall]
      /\ UNCHANGED <<router, now, limiters, rateLimitStore, memoryCache>>

\* limiter.reset(request, identifier), lines 112-116.
ResetCall(limiter, clientId) ==
  LET key == RateLimitKey(limiter, clientId)
  IN  /\ limiter \in limiters
      /\ rateLimitStore' = MapDelete(rateLimitStore, key)
      /\ awaiting' = Detach(awaiting, {key} \cap DOMAIN rateLimitStore)
      /\ last' = [op |-> "reset", clientId |-> clientId]
      /\ UNCHANGED <<router, now, limiters, memoryCache>>

\* rateLimitStore.cleanup(), run by the interval timer of lines 65-70.
StoreCleanup ==
  LET expired == {key \in DOMAIN rateLimitStore :
                    now > rateLimitStore[key].resetTime}
  IN  /\ rateLimitStore' = [key \in DOMAIN rateLimitStore \ expired |->
                              rateLimitStore[key]]
      /\ awaiting' = Detach(awaiting, expired)
      /\ UNCHANGED <<router, last, now, limiters, memoryCache>>

\* The state after the module is loaded and the limiters `constructed` are
\* constructed (new RateLimiter(config)); the router is not used.
RateLimitLoaded(constructed) ==
  /\ env = [OPENAI_API_KEY |-> Undefined, ANTHROPIC_API_KEY |-> Undefined]
  /\ config = Constructor([defaultProvider |-> <<>>, fallbackEnabled |-> <<>>,
                           costOptimization |-> <<>>, loadBalancing |-> <<>>])
  /\ requestCounts = EmptyMap
  /\ inflight = [c \in CallIds |-> NoCall]
  /\ last = [op |-> "load"]
  /\ now = 0
  /\ limiters = constructed
  /\ rateLimitStore = EmptyMap
  /\ memoryCache = EmptyMap
  /\ awaiting = [c \in AwaitIds |-> NoCall]

\* Callers check one client through limiters of both configurations.
InitRateLimit == RateLimitLoaded(RateLimitConfigs)

NextRateLimit ==
  \/ Tick
  \/ \E c \in AwaitIds, limiter \in RateLimitConfigs, clientId \in ClientIds :
        CheckStart(c, limiter, clientId, FALSE)
  \/ \E c \in AwaitIds : CheckFinish(c)
  \/ \E limiter \in RateLimitConfigs, clientId \in ClientIds :
        ResetCall(limiter, clientId)
  \/ StoreCleanup

SpecRateLimit == InitRateLimit /\ [][NextRateLimit]_vars

\* One limiter, of either configuration, checks the client.
InitOneLimiter == \E limiter \in RateLimitConfigs : RateLimitLoaded({limiter})

SpecOneLimiter == InitOneLimiter /\ [][NextRateLimit]_vars

\* A route handler wrapped by withRateLimit(config): the one limiter the
\* wrapper constructs (line 123) checks every request.
NextWithRateLimit ==
  \/ Tick
  \/ \E c \in AwaitIds, limiter \in RateLimitConfigs, clientId \in ClientIds :
        CheckStart(c, limiter, clientId, TRUE)
  \/ \E c \in AwaitIds : CheckFinish(c)
  \/ \E c \in AwaitIds, threw \in BOOLEAN : HandlerSettles(c, threw)
  \/ StoreCleanup

SpecWithRateLimit == InitOneLimiter /\ [][NextWithRateLimit]_vars

-----------------------------------------------------------------------------
(* lib/cache                                                               *)

CACHE_DURATIONS == [short |-> 60, medium |-> 300, long |-> 3600, day |-> 86400]

\* MemoryCache.get returns null for a key it does not hold.
Null == "null"

\* The values callers cache: the empty string, which is falsy, and two others.
CacheValues == {"", "a", "b"}

\* The names a parameter object can have properties of, in sorted order.
ParamNames == <<"model", "prompt">>

\* Parameter objects, each as the sequence of its property names in the
\* order they were added.
ParamObjects == {<<>>, <<"model", "prompt">>, <<"prompt", "model">>}

\* Object.keys(params).sort().reduce(...): the object with its properties in
\* sorted order.
sortedParams(params) ==
  SelectSeq(ParamNames,
            LAMBDA name : \E i \in 1..Len(params) : params[i] = name)

\* generateCacheKey, lines 91-100: `${prefix}:${JSON.stringify(sortedParams)}`.
generateCacheKey(prefix, params) == <<prefix, sortedParams(params)>>

\* The cache keys in use.
CacheKeys == {generateCacheKey("ai", params) : params \in ParamObjects}

\* ttlSeconds, as given to MemoryCache.set.
TtlChoices == {0, 1, 2}

\* if (cached), line 116.
Truthy(v) == v # Null /\ v # ""

\* An entry's expiry time has passed, lines 27 and 151.
\* At the expiry time the entry counts as expired already.
Expired_AtExpiry(item) == now >= item.expires

Expired(item) == now > item.expires

\* MemoryCache.get(key), lines 23-33: the value it returns and the map it
\* leaves.
Get(key) ==
  IF key \notin DOMAIN memoryCache
    THEN [value |-> Null, memoryCache |-> memoryCache]
  ELSE IF Expired(memoryCache[key])
    THEN [value |-> Null, memoryCache |-> MapDelete(memoryCache, key)]
  ELSE [value |-> memoryCache[key].value, memoryCache |-> memoryCache]

\* MemoryCache.set(key, value, ttlSeconds), lines 35-40: the map it leaves.
\* Besides value and expires an entry tells when and with which ttl it was
\* set.
Set(key, value, ttlSeconds) ==
  MapSet(memoryCache, key,
         [value |-> value, expires |-> now + ttlSeconds * 1000,
          setAt |-> now, ttlSeconds |-> ttlSeconds])

\* The entry under key, <<>> when there is none.
Entry(key) ==
  IF key \in DOMAIN memoryCache THEN <<memoryCache[key]>> ELSE <<>>

\* A caller calls MemoryCache.get(key); the record tells the entry the call
\* found and MemoryCache.size() before and after it.
GetCall(key) ==
  /\ memoryCache' = Get(key).memoryCache
  /\ last' = [op |-> "get", key |-> key, at |-> now, found |-> Entry(key),
              value |-> Get(key).value,
              sizeBefore |-> Cardinality(DOMAIN memoryCache),
              size |-> Cardinality(DOMAIN Get(key).memoryCache)]
  /\ UNCHANGED <<router, now, limiters, rateLimitStore, awaiting>>

SetCall(key, value, ttlSeconds) ==
  /\ memoryCache' = Set(key, value, ttlSeconds)
  /\ last' = [op |-> "set", key |-> key, at |-> now, value |-> value,
              ttlSeconds |-> ttlSeconds]
  /\ UNCHANGED <<router, now, limiters, rateLimitStore, awaiting>>

\* MemoryCache.delete(key), lines 42-44.
DeleteCall(key) ==
  /\ memoryCache' = MapDelete(memoryCache, key)
  /\ last' = [op |-> "delete", key |-> key]
  /\ UNCHANGED <<router, now, limiters, rateLimitStore, awaiting>>

\* MemoryCache.clear(), lines 46-48.
ClearCall ==
  /\ memoryCache' = EmptyMap
  /\ last' = [op |-> "clear"]
  /\ UNCHANGED <<router, now, limiters, rateLimitStore, awaiting>>

\* MemoryCache.size(), lines 50-52.
SizeCall ==
  /\ last' = [op |-> "size", value |-> Cardinality(DOMAIN memoryCache)]
  /\ UNCHANGED <<router, now, limiters, rateLimitStore, memoryCache, awaiting>>

\* The interval timer of lines 146-156.
CacheCleanup ==
  /\ memoryCache' = [key \in {k \in DOMAIN memoryCache :
                                ~Expired(memoryCache[k])} |-> memoryCache[key]]
  /\ UNCHANGED <<router, last, now, limiters, rateLimitStore, awaiting>>

\* The state after the module is loaded; the router and the rate limiter are
\* not used.
InitCache == RateLimitLoaded({})

NextMemoryCache ==
  \/ Tick
  \/ \E key \in CacheKeys : GetCall(key)
  \/ \E key \in CacheKeys, value \in CacheValues, ttlSeconds \in TtlChoices :
        SetCall(key, value, ttlSeconds)
  \/ \E key \in CacheKeys : DeleteCall(key)
  \/ ClearCall
  \/ SizeCall
  \/ CacheCleanup

SpecMemoryCache == InitCache /\ [][NextMemoryCache]_vars

\* withCache(fn, options): options.ttl, <<>> when it is left out.
TtlOptions == {<<>>, <<0>>, <<1>>}

\* options.ttl || CACHE_DURATIONS.short
TtlOrShort(option) ==
  IF option = <<>> \/ option[1] = 0 THEN CACHE_DURATIONS.short ELSE option[1]

\* args[0], <<>> when the wrapped function is called without arguments.
Arguments == {<<>>} \cup {<<params>> : params \in ParamObjects}

\* args[0] || {}
OrEmptyObject(arg) == IF arg = <<>> THEN <<>> ELSE arg[1]

\* What the wrapped function throws when it fails.
FnError == "Error"

\* The record of a call of a function wrapped by withCache that has settled:
\* whether it ran the function, what it returned, and the value its result
\* replaced in the cache.
CachedRecord(key, ranFn, outcome, value, replaced) ==
  [op |-> "withCache", key |-> key, at |-> now, ranFn |-> ranFn,
   outcome |-> outcome, value |-> value, replaced |-> replaced]

\* The value cached for a key, <<>> when there is none.
CachedValue(key) ==
  IF key \in DOMAIN memoryCache THEN <<memoryCache[key].value>> ELSE <<>>

\* Pending calls are interchangeable: a new one takes the first free place.
FirstFree(c) ==
  /\ awaiting[c].pc = "idle"
  /\ \A d \in AwaitIds : d < c => awaiting[d].pc # "idle"

\* The wrapper up to its await, lines 111-121: a cached value that is truthy
\* is returned, otherwise the function is called.
WithCacheStart(c, arg, ttl) ==
  LET cacheKey == generateCacheKey("ai", OrEmptyObject(arg))
      cached == Get(cacheKey)
  IN  /\ FirstFree(c)
      /\ memoryCache' = cached.memoryCache
      /\ IF Truthy(cached.value)
           THEN /\ last' = CachedRecord(cacheKey, FALSE, "resolved",
                                        cached.value, <<>>)
                /\ UNCHANGED awaiting
           ELSE /\ awaiting' = [awaiting EXCEPT ![c] =
                     [pc |-> "fn", key |-> cacheKey, ttl |-> TtlOrShort(ttl)]]
                /\ UNCHANGED last
      /\ UNCHANGED <<router, now, limiters, rateLimitStore>>

\* The wrapped function returns, with the result cached only when the key
\* has no entry yet.
FnReturns_FirstWins(c, result) ==
  LET call == awaiting[c]
  IN  /\ call.pc = "fn"
      /\ memoryCache' = IF call.key \in DOMAIN memoryCache THEN memoryCache
                        ELSE Set(call.key, result, call.ttl)
      /\ last' = CachedRecord(call.key, TRUE, "resolved", result,
                              CachedValue(call.key))
      /\ awaiting' = [awaiting EXCEPT ![c] = NoCall]
      /\ UNCHANGED <<router, now, limiters, rateLimitStore>>

\* The wrapped function returns: lines 121-126.
FnReturns(c, result) ==
  LET call == awaiting[c]
  IN  /\ call.pc = "fn"
      /\ memoryCache' = Set(call.key, result, call.ttl)
      /\ last' = CachedRecord(call.key, TRUE, "resolved", result,
                              CachedValue(call.key))
      /\ awaiting' = [awaiting EXCEPT ![c] = NoCall]
      /\ UNCHANGED <<router, now, limiters, rateLimitStore>>

\* The wrapped function throws: the wrapper rejects, nothing is cached.
FnThrows(c) ==
  LET call == awaiting[c]
  IN  /\ call.pc = "fn"
      /\ last' = CachedRecord(call.key, TRUE, "rejected", FnError, <<>>)
      /\ awaiting' = [awaiting EXCEPT ![c] = NoCall]
      /\ UNCHANGED <<router, now, limiters, rateLimitStore, memoryCache>>

NextWithCache ==
  \/ Tick
  \/ \E c \in AwaitIds, arg \in Arguments, ttl \in TtlOptions :
        WithCacheStart(c, arg, ttl)
  \/ \E c \in AwaitIds, result \in CacheValues : FnReturns(c, result)
  \/ \E c \in AwaitIds : FnThrows(c)
  \/ CacheCleanup

SpecWithCache == InitCache /\ [][NextWithCache]_vars

-----------------------------------------------------------------------------
(* Properties.                                                             *)

\* The providers whose credential is configured in the environment.
Credentialed ==
  {p \in {"openai"} : Boolean(env.OPENAI_API_KEY)}
  \cup {p \in {"anthropic"} : Boolean(env.ANTHROPIC_API_KEY)}

\* The names getAvailableProviders returns.
AvailableNames ==
  {getAvailableProviders[i].name : i \in 1..Len(getAvailableProviders)}

Selected == last.op = "selectProvider" /\ ~last.threw

\* C1: with neither credential configured, selectProvider throws a
\* ConfigurationError, chat rejects with a ConfigurationError having invoked
\* no provider, and no chat call ever has an invocation in flight, whatever
\* the configuration (fallbackEnabled included).
C1_NoProviderFailsClosed ==
  Credentialed = {} =>
    /\ last.op = "selectProvider" =>
         last.threw /\ last.value = ConfigurationError
    /\ last.op = "chat" =>
         /\ last.outcome = "rejected"
         /\ last.value = ConfigurationError
         /\ last.invoked = <<>>
    /\ \A c \in CallIds : inflight[c].pc = "idle"

C1_Witness ==
  /\ Credentialed = {}
  /\ config.fallbackEnabled
  /\ last.op = "chat"
  /\ last.outcome = "rejected"

\* C2: a selectProvider call that returns, returns the name of a provider
\* that getAvailableProviders lists and whose credential is configured; it
\* never returns 'auto'.
C2_SelectedIsAvailable ==
  Selected =>
    /\ last.value \in AvailableNames
    /\ last.value \in Credentialed
    /\ last.value # "auto"

C2_Witness ==
  /\ Selected
  /\ config.defaultProvider = "openai"
  /\ Credentialed = {"anthropic"}
  /\ last.value = "anthropic"

\* C3: when defaultProvider names an available provider, every
\* selectProvider call returns exactly that provider, whatever the request,
\* costOptimization, loadBalancing and the counters are.
C3_ExplicitProviderWins ==
  (last.op = "selectProvider" /\ config.defaultProvider \in Credentialed) =>
    ~last.threw /\ last.value = config.defaultProvider

C3_Witness ==
  /\ Selected
  /\ Credentialed = {"openai", "anthropic"}
  /\ config.defaultProvider = "openai"
  /\ config.costOptimization
  /\ last.value = "openai"

\* Selection is automatic: defaultProvider is 'auto', or names a provider
\* that is not available.
AutomaticMode == config.defaultProvider \notin Credentialed

\* The router as it was when the last selectProvider call was made, with
\* another configuration.
RouterBefore(otherConfig) ==
  [config |-> otherConfig, requestCounts |-> last.before]

\* C4: when defaultProvider names an unavailable or unknown provider and some
\* provider is available, selectProvider does not throw, and it returns the
\* provider and leaves the counters that the same call leaves on a router
\* whose defaultProvider is 'auto', the rest being equal.
C4_UnavailableDefaultIsAuto ==
  (/\ last.op = "selectProvider"
   /\ config.defaultProvider # "auto"
   /\ config.defaultProvider \notin Credentialed
   /\ Credentialed # {}) =>
    LET auto == selectProvider(
                  RouterBefore([config EXCEPT !.defaultProvider = "auto"]),
                  last.request)
    IN  /\ ~last.threw
        /\ ~auto.threw
        /\ last.value = auto.value
        /\ requestCounts = auto.requestCounts

C4_Witness ==
  /\ Selected
  /\ config.defaultProvider = "lmstudio"
  /\ config.loadBalancing
  /\ Credentialed = {"openai", "anthropic"}
  /\ last.value = "anthropic"

\* name is the provider of the list with the lowest costPerToken, the first
\* of them in the list's order when several cost the same.
IsFirstCheapest(providers, name) ==
  \E i \in 1..Len(providers) :
    /\ providers[i].name = name
    /\ \A j \in 1..Len(providers) :
         providers[j].costPerToken >= providers[i].costPerToken
    /\ \A j \in 1..(i - 1) :
         providers[j].costPerToken > providers[i].costPerToken

\* Descriptors of which two cost the same, and the lists without repetition
\* made of them.
SampleProviders ==
  { [name |-> "a", costPerToken |-> 20], [name |-> "b", costPerToken |-> 20],
    [name |-> "c", costPerToken |-> 30] }

SampleLists ==
  UNION { {l \in [1..n -> SampleProviders] :
             \A i, j \in 1..n : i # j => l[i] # l[j]} : n \in 1..3 }

\* C5: in automatic selection with costOptimization, selectProvider returns
\* the available provider with the lowest costPerToken, anthropic when both
\* are available; among providers of equal cost the reduction keeps the
\* first in the list's order.
C5_CostOptimizationPicksCheapest ==
  (Selected /\ AutomaticMode /\ config.costOptimization) =>
    /\ IsFirstCheapest(getAvailableProviders, last.value)
    /\ Credentialed = {"openai", "anthropic"} => last.value = "anthropic"
    /\ \A l \in SampleLists : IsFirstCheapest(l, CheapestProvider(l).name)

C5_Witness ==
  /\ Selected
  /\ config.defaultProvider = "auto"
  /\ config.costOptimization
  /\ Credentialed = {"openai", "anthropic"}
  /\ last.value = "anthropic"

\* C6: with costOptimization and loadBalancing both set, automatic selection
\* returns the cheapest available provider whatever the counters are, and
\* returns and counts exactly as with loadBalancing unset.
C6_CostBeforeLoadBalancing ==
  (/\ Selected
   /\ AutomaticMode
   /\ config.costOptimization
   /\ config.loadBalancing) =>
    LET unbalanced == selectProvider(
                        RouterBefore([config EXCEPT !.loadBalancing = FALSE]),
                        last.request)
    IN  /\ IsFirstCheapest(getAvailableProviders, last.value)
        /\ last.value = unbalanced.value
        /\ requestCounts = unbalanced.requestCounts

\* The counters are such that load balancing would pick the other provider.
C6_Witness ==
  /\ Selected
  /\ AutomaticMode
  /\ config.costOptimization
  /\ config.loadBalancing
  /\ Credentialed = {"openai", "anthropic"}
  /\ last.value = "anthropic"
  /\ CountOf(last.before, "anthropic") > CountOf(last.before, "openai")

\* Load balancing is the strategy in effect.
LoadBalancingMode ==
  AutomaticMode /\ ~config.costOptimization /\ config.loadBalancing

\* C7: while load balancing is the strategy in effect, the usage counters of
\* any two available providers differ by at most one (no entry counting as 0).
C7_LoadBalancingKeepsCountersClose ==
  LoadBalancingMode =>
    \A p, q \in Credentialed :
      CountOf(requestCounts, p) - CountOf(requestCounts, q) <= 1

C7_Witness ==
  /\ LoadBalancingMode
  /\ Credentialed = {"openai", "anthropic"}
  /\ CountOf(requestCounts, "openai") = 2
  /\ CountOf(requestCounts, "anthropic") = 1

\* C8: every selectProvider call that returns a provider has increased that
\* provider's counter by exactly one and changed no other counter, in every
\* selection mode, the explicitly configured provider included.
C8_EverySelectionIsCounted ==
  Selected => Delta(last.before, requestCounts) = (last.value :> 1)

\* C9: a chat call that failed over has increased by one the counter of each
\* provider it invoked, the primary one and the alternates.
C9_FailoverCountsEachAttempt ==
  (last.op = "chat" /\ Len(last.invoked) >= 2) =>
    \A i \in 1..Len(last.invoked) :
      CountOf(last.counted, last.invoked[i]) = 1

\* C10: getStatistics right after resetStatistics returns nothing; and
\* getStatistics right after a selectProvider call that found the counters
\* empty and returned P returns exactly P, with requestCount 1.
C10_StatisticsAfterResetAndSelect ==
  last.op = "getStatistics" =>
    /\ last.after.op = "resetStatistics" => last.value = EmptyMap
    /\ (/\ last.after.op = "selectProvider"
        /\ ~last.after.threw
        /\ last.after.before = EmptyMap) =>
         last.value =
           (last.after.value :>
              [requestCount |-> 1, info |-> PROVIDER_INFO[last.after.value]])

\* C11: in every reachable state the keys of requestCounts are providers
\* whose credential is configured; 'auto' is never a key.
C11_CounterKeysAreAvailable ==
  /\ DOMAIN requestCounts \subseteq Credentialed
  /\ DOMAIN requestCounts \subseteq AvailableNames
  /\ "auto" \notin DOMAIN requestCounts

C11_Witness ==
  /\ Credentialed = {"anthropic"}
  /\ config.defaultProvider = "lmstudio"
  /\ DOMAIN requestCounts = {"anthropic"}
  /\ last.op = "chat"

\* The capability heuristic is the strategy in effect.
CapabilityMode ==
  AutomaticMode /\ ~config.costOptimization /\ ~config.loadBalancing

\* The scenario of C12: both providers available, defaultProvider 'auto',
\* no cost optimization, no load balancing, a request whose message text
\* totals 12,000 characters.
C12_Scenario ==
  /\ Selected
  /\ Credentialed = {"openai", "anthropic"}
  /\ config.defaultProvider = "auto"
  /\ CapabilityMode
  /\ last.request.textLength = 12000

\* C12 as claimed: in the scenario selectProvider returns anthropic.
C12_LongRequestSelectsAnthropic == C12_Scenario => last.value = "anthropic"

\* C12 as amended: in the scenario selectProvider returns openai (the two
\* providers score the same, with or without the long-context bonus, and the
\* stable sort keeps openai first).
C12_LongRequestSelectsOpenAI == C12_Scenario => last.value = "openai"

C12_Witness ==
  /\ C12_Scenario
  /\ needsLongContext(last.request)
  /\ last.value = "openai"

\* The last call was a chat call that invoked a provider and has settled.
ChatSettled == last.op = "chat" /\ last.invoked # <<>>

\* C13: with fallbackEnabled false a chat call invokes exactly one provider,
\* and when that invocation throws chat rejects with the error it threw.
C13_NoFallbackPropagatesError ==
  ~config.fallbackEnabled =>
    /\ \A c \in CallIds :
         inflight[c].pc # "idle" =>
           inflight[c].pc = "primary" /\ Len(inflight[c].invoked) = 1
    /\ ChatSettled =>
         /\ Len(last.invoked) = 1
         /\ last.outcomes = <<"threw">> =>
              /\ last.outcome = "rejected"
              /\ last.value = ProviderError(last.invoked[1])

C13_Witness ==
  /\ ~config.fallbackEnabled
  /\ Credentialed = {"openai", "anthropic"}
  /\ ChatSettled
  /\ last.outcomes = <<"threw">>
  /\ last.outcome = "rejected"

\* C14: with fallbackEnabled true and both providers available, a chat call
\* whose primary invocation threw and whose invocation of the other provider
\* returned resolves with what the other provider returned.
C14_FallbackResultIsReturned ==
  (/\ ChatSettled
   /\ config.fallbackEnabled
   /\ Credentialed = {"openai", "anthropic"}
   /\ last.outcomes = <<"threw", "returned">>) =>
    \E other \in Credentialed \ {last.primaryProvider} :
      /\ last.invoked = <<last.primaryProvider, other>>
      /\ last.outcome = "resolved"
      /\ last.value = Stream(other)

C14_Witness ==
  /\ ChatSettled
  /\ config.fallbackEnabled
  /\ last.invoked = <<"openai", "anthropic">>
  /\ last.outcomes = <<"threw", "returned">>
  /\ last.value = Stream("anthropic")

\* C15: with fallbackEnabled true, a chat call all of whose invocations threw
\* has invoked every available provider and rejects with the error the
\* primary provider's invocation threw, not with an alternate's error.
C15_PrimaryErrorWins ==
  (/\ ChatSettled
   /\ config.fallbackEnabled
   /\ \A i \in 1..Len(last.outcomes) : last.outcomes[i] = "threw") =>
    /\ Len(last.invoked) = Cardinality(Credentialed)
    /\ last.outcome = "rejected"
    /\ last.value = ProviderError(last.primaryProvider)
    /\ last.invoked[1] = last.primaryProvider
    /\ \A i \in 2..Len(last.invoked) :
         last.value # ProviderError(last.invoked[i])

C15_Witness ==
  /\ ChatSettled
  /\ config.fallbackEnabled
  /\ last.outcomes = <<"threw", "threw">>
  /\ last.outcome = "rejected"
  /\ last.value = ProviderError("openai")

\* The providers in the order of their declaration.
DeclarationOrder == <<"openai", "anthropic">>

\* The order in which a chat call may invoke providers: the primary one,
\* then the other available ones in declaration order.
InvocationOrder(primaryProvider) ==
  <<primaryProvider>>
  \o SelectSeq(DeclarationOrder,
               LAMBDA p : p \in Credentialed /\ p # primaryProvider)

\* invoked and outcomes are those of a call that follows InvocationOrder,
\* invokes no provider twice, and goes on only after a throw; pending says
\* whether the last invocation has not yet settled.
OrderlyCall(call, pending) ==
  /\ Len(call.invoked) <= Cardinality(Credentialed)
  /\ call.invoked =
       SubSeq(InvocationOrder(call.primaryProvider), 1, Len(call.invoked))
  /\ \A i, j \in 1..Len(call.invoked) :
       i # j => call.invoked[i] # call.invoked[j]
  /\ Len(call.outcomes) = Len(call.invoked) - (IF pending THEN 1 ELSE 0)
  /\ \A i \in 1..(Len(call.invoked) - 1) : call.outcomes[i] = "threw"

\* C16: with fallbackEnabled true a chat call invokes the primary provider
\* first, then the remaining available providers in getAvailableProviders
\* order, each at most once, none after an invocation has returned, and
\* never more invocations than there are available providers.
C16_FallbackOrder ==
  config.fallbackEnabled =>
    /\ \A c \in CallIds :
         inflight[c].pc # "idle" => OrderlyCall(inflight[c], TRUE)
    /\ ChatSettled => OrderlyCall(last, FALSE)

C16_Witness ==
  /\ config.fallbackEnabled
  /\ ChatSettled
  /\ last.invoked = <<"anthropic", "openai">>
  /\ last.outcomes = <<"threw", "threw">>

\* C17: getAvailableProviders returns the providers whose credential is
\* configured, and only those, in declaration order, each with the fields of
\* its descriptor and available: true.
C17_AvailableAreTheCredentialed ==
  last.op = "getAvailableProviders" =>
    /\ [i \in 1..Len(last.value) |-> last.value[i].name] =
         SelectSeq(DeclarationOrder, LAMBDA p : p \in Credentialed)
    /\ \A i \in 1..Len(last.value) :
         LET provider == last.value[i]
             info == PROVIDER_INFO[provider.name]
         IN  /\ provider.available = TRUE
             /\ provider.costPerToken = info.costPerToken
             /\ provider.speed = info.speed
             /\ provider.capabilities = info.capabilities

C17_Witness ==
  /\ last.op = "getAvailableProviders"
  /\ env.OPENAI_API_KEY = ""
  /\ Credentialed = {"anthropic"}
  /\ Len(last.value) = 1

\* A call invoked LM Studio first, and any other provider only after an
\* invocation had thrown.
LMStudioFirst(call) ==
  /\ call.invoked[1] = "lmstudio"
  /\ \A i \in 2..Len(call.invoked) : call.outcomes[i - 1] = "threw"

\* C18: with LM Studio configured, getAvailableProviders lists 'lmstudio',
\* and a router with defaultProvider 'lmstudio' and fallbackEnabled true
\* invokes LM Studio first in chat and the other providers only after that
\* invocation has thrown.
C18_LMStudioIsRouted ==
  hasLMStudio =>
    /\ last.op = "getAvailableProviders" =>
         \E i \in 1..Len(last.value) : last.value[i].name = "lmstudio"
    /\ (config.defaultProvider = "lmstudio" /\ config.fallbackEnabled) =>
         /\ \A c \in CallIds :
              inflight[c].pc # "idle" => LMStudioFirst(inflight[c])
         /\ ChatSettled => LMStudioFirst(last)

\* What the score of a provider gains from the length of the request: the
\* score less the score of the same request without messages.
LongContextBonus(provider, request) ==
  Score(provider, request)
  - Score(provider, [request EXCEPT !.numMessages = 0])

\* C19: in the capability heuristic a provider gets the long-context bonus
\* (+5) exactly when the message text of the request totals more than 10,000
\* characters and the provider's maxTokens exceeds 100,000.
C19_BonusFollowsTextLength ==
  (Selected /\ CapabilityMode) =>
    \A i \in 1..Len(getAvailableProviders) :
      LET provider == getAvailableProviders[i]
      IN  (LongContextBonus(provider, last.request) = 5 * CostScale)
          <=> (/\ last.request.textLength > 10000
               /\ provider.capabilities.maxTokens > 100000)

\* The chat calls in flight whose primary provider is p: each has made one
\* selection of p.
InFlightSelections(p) ==
  {c \in CallIds : inflight[c].pc # "idle" /\ inflight[c].primaryProvider = p}

\* Two chat calls that selected p are in flight together.
Overlap(p) == Cardinality(InFlightSelections(p)) >= 2

\* C20 as claimed: concurrent chat calls lose counter updates: when chat
\* calls that selected the same provider overlap, the provider's counter is
\* smaller than the number of their selections.
C20_OverlapLosesUpdates ==
  \A p \in Credentialed :
    (AutomaticMode /\ Overlap(p)) =>
      CountOf(requestCounts, p) < Cardinality(InFlightSelections(p))

\* C20 as amended: no interleaving of chat and selectProvider calls loses a
\* counter update: in automatic selection, and while nobody resets the
\* statistics, a provider's counter is never smaller than the number of
\* selections made by the chat calls in flight.
C20_NoLostUpdate ==
  \A p \in Credentialed :
    AutomaticMode =>
      CountOf(requestCounts, p) >= Cardinality(InFlightSelections(p))

C20_Witness ==
  /\ AutomaticMode
  /\ Overlap("openai")
  /\ CountOf(requestCounts, "openai") = 2

\* The last call started a chat call: the record is that of the selection the
\* call began with.
ChatStarted == last.op = "selectProvider" /\ "failedBefore" \in DOMAIN last

\* The first provider every chat call in flight, and the chat call that
\* settled last, has invoked is the configured one.
ConfiguredProviderFirst ==
  /\ \A c \in CallIds :
       inflight[c].pc # "idle" =>
         /\ inflight[c].primaryProvider = config.defaultProvider
         /\ inflight[c].invoked[1] = config.defaultProvider
  /\ ChatSettled => last.invoked[1] = config.defaultProvider

\* A provider invocation of a chat call settles: it returns or throws.
InvocationSettles ==
  \E c \in CallIds : ExecuteSucceeds(c) \/ PrimaryFails(c) \/ FallbackFails(c)

\* C21: the router keeps no failure history.  While defaultProvider names an
\* available provider, every chat call invokes that provider first, also one
\* that starts right after a chat call in which that provider threw; and a
\* provider invocation that returns or throws leaves everything selection
\* reads (the environment, the configuration, the counters) as it was, so
\* that which invocations fail has no influence on later selections.
C21_NoFailureHistory ==
  /\ [](config.defaultProvider \in Credentialed => ConfiguredProviderFirst)
  /\ [][InvocationSettles => UNCHANGED <<env, config, requestCounts>>]_vars

C21_Witness ==
  /\ ChatStarted
  /\ last.failedBefore
  /\ config.defaultProvider \in Credentialed
  /\ last.value = config.defaultProvider
  /\ \E c \in CallIds :
       inflight[c].pc = "primary" /\ inflight[c].invoked = <<last.value>>

\* C22: the configuration is fixed at construction.  No step of any call
\* (selectProvider, chat, getStatistics, resetStatistics,
\* getAvailableProviders) changes defaultProvider, fallbackEnabled,
\* costOptimization or loadBalancing, and a getStatistics or
\* getAvailableProviders call leaves the usage counters as they were.
C22_ConfigurationIsFixed ==
  [][/\ config' = config
     /\ last'.op \in {"getStatistics", "getAvailableProviders"} =>
          requestCounts' = requestCounts]_vars

C22_Witness ==
  /\ last.op = "getStatistics"
  /\ last.after.op = "selectProvider"
  /\ last.value = getStatistics(Router)
  /\ requestCounts # EmptyMap
  /\ config.costOptimization
  /\ ~config.fallbackEnabled

\* The invocations of a call are at most one per available provider, and at
\* most one of them is pending.
BoundedInvocations(call) ==
  /\ Len(call.invoked) <= Len(getAvailableProviders)
  /\ Len(call.invoked) - Len(call.outcomes) <= 1

\* C23: every chat call terminates.  When each provider invocation returns
\* or throws, a chat call in flight eventually settles; it makes at most one
\* invocation per available provider; and the counters change only in a
\* selection (a selectProvider call, or the one a chat call starts with) or
\* a reset, never in or after the step that settles a chat call.
C23_ChatTerminates ==
  /\ \A c \in CallIds : inflight[c].pc # "idle" ~> inflight[c].pc = "idle"
  /\ [](\A c \in CallIds :
          inflight[c].pc # "idle" => BoundedInvocations(inflight[c]))
  /\ [](ChatSettled => BoundedInvocations(last))
  /\ [][requestCounts' # requestCounts =>
          last'.op \in {"selectProvider", "resetStatistics"}]_vars

C23_Witness ==
  /\ ChatSettled
  /\ last.outcome = "rejected"
  /\ Len(last.invoked) = 2
  /\ Len(last.outcomes) = 2
  /\ \A c \in CallIds : inflight[c].pc = "idle"

\* C24: under the capability heuristic the two providers always score the
\* same: 0 each for a request that does not get the long-context bonus, 5
\* each for one that does, the vision penalty applying to neither.  So
\* selectProvider returns openai for every request whenever openai is
\* available, and anthropic only when anthropic is the sole available
\* provider.
C24_CapabilityScoresTie ==
  /\ \A request \in Requests :
       LET bonus == IF needsLongContext(request) THEN 5 * CostScale ELSE 0
       IN  /\ Score(Available(PROVIDER_INFO.openai), request) = bonus
           /\ Score(Available(PROVIDER_INFO.anthropic), request) = bonus
  /\ (Selected /\ CapabilityMode) =>
       /\ "openai" \in Credentialed => last.value = "openai"
       /\ last.value = "anthropic" => Credentialed = {"anthropic"}

C24_Witness ==
  /\ Selected
  /\ CapabilityMode
  /\ config.defaultProvider = "auto"
  /\ Credentialed = {"openai", "anthropic"}
  /\ needsVision(last.request)
  /\ ~needsLongContext(last.request)
  /\ last.value = "openai"

\* The provider other than p.
OtherProvider(p) == IF p = "openai" THEN "anthropic" ELSE "openai"

\* A chat call has just started under load balancing, both providers being
\* available, while the primary invocation of call `first` is pending, and
\* the counters it found are equal counters plus the selection of `first`.
SecondStartsWhileFirstPending(first) ==
  /\ ChatStarted
  /\ LoadBalancingMode
  /\ Credentialed = {"openai", "anthropic"}
  /\ inflight[first].pc = "primary"
  /\ CountOf(last.before, inflight[first].primaryProvider)
       = CountOf(last.before, OtherProvider(inflight[first].primaryProvider)) + 1

\* C25: selection counts the requests in flight.  Under load balancing with
\* both providers available and equal counters, a chat call that starts
\* while the first call's provider invocation is pending gets the other
\* primary provider: the first call's selection was counted before its
\* invocation began.
C25_OverlappingCallsAreSpread ==
  \A first \in CallIds :
    SecondStartsWhileFirstPending(first) =>
      /\ last.value # inflight[first].primaryProvider
      /\ \E second \in CallIds \ {first} :
           /\ inflight[second].pc # "idle"
           /\ inflight[second].primaryProvider = last.value

C25_Witness ==
  /\ SecondStartsWhileFirstPending(1)
  /\ last.before = MapSet(EmptyMap, "openai", 1)
  /\ inflight[1].primaryProvider = "openai"
  /\ inflight[2].pc = "primary"
  /\ inflight[2].primaryProvider = "anthropic"

\* C26: one limiter and one client.  The k-th check of a window returns
\* success exactly when k is at most uniqueTokenPerInterval, and reports
\* remaining = max(0, limit - k), which is never negative.
C26_KthCheckWithinLimit ==
  last.op = "check" =>
    LET limit == last.limiter.uniqueTokenPerInterval
    IN  /\ last.value.success <=> last.k <= limit
        /\ last.value.remaining = Max(0, limit - last.k)
        /\ last.value.remaining >= 0

\* The sum of f over the set S.
RECURSIVE Sum(_, _)
Sum(f, S) ==
  IF S = {} THEN 0
  ELSE LET x == CHOOSE y \in S : TRUE IN f[x] + Sum(f, S \ {x})

C28_HandlerOnlyAfterSuccess ==
  /\ \A c \in AwaitIds :
       /\ awaiting[c].pc = "handler" => awaiting[c].check.success
       /\ (awaiting[c].pc = "check" /\ awaiting[c].shared) =>
            rateLimitStore[awaiting[c].key].count >= awaiting[c].k
  /\ last.op = "withRateLimit" =>
       /\ last.handlerCalled <=> last.check.success
       /\ ~last.check.success =>
            /\ last.outcome = "rejected"
            /\ last.value.type = "RateLimitError"
            /\ last.check.remaining = 0
            /\ last.k >= 1

C28_Witness ==
  /\ last.op = "withRateLimit"
  /\ last.outcome = "rejected"
  /\ last.value.type = "RateLimitError"
  /\ ~last.handlerCalled
  /\ last.k = last.limiter.uniqueTokenPerInterval + 1
  /\ \E key \in DOMAIN rateLimitStore : rateLimitStore[key].count = last.k

\* C29: MemoryCache.get never returns a value whose expiry time has passed.
\* For an entry set with ttlSeconds at time t, get returns the value while
\* now <= t + ttlSeconds * 1000; afterwards it returns null and deletes the
\* entry, so that size() drops by one.  A set leaves the key with the value
\* and the expiry of that set; after delete the key, and after clear every
\* key, is gone, and get returns null for a key that is not there.
C29_GetRespectsExpiry ==
  /\ last.op = "get" =>
       IF last.found = <<>>
         THEN last.value = Null /\ last.size = last.sizeBefore
         ELSE LET item == last.found[1]
                  deadline == item.setAt + item.ttlSeconds * 1000
              IN  /\ item.expires = deadline
                  /\ last.at <= deadline =>
                       last.value = item.value /\ last.size = last.sizeBefore
                  /\ last.at > deadline =>
                       last.value = Null /\ last.size = last.sizeBefore - 1
  /\ (last.op = "set" /\ last.key \in DOMAIN memoryCache) =>
       /\ memoryCache[last.key].value = last.value
       /\ memoryCache[last.key].expires = last.at + last.ttlSeconds * 1000
  /\ last.op = "delete" => last.key \notin DOMAIN memoryCache
  /\ last.op = "clear" => memoryCache = EmptyMap

C29_Witness ==
  /\ last.op = "get"
  /\ last.found # <<>>
  /\ last.found[1].ttlSeconds = 1
  /\ last.found[1].value = "a"
  /\ last.at = last.found[1].setAt + 2000
  /\ last.value = Null
  /\ last.sizeBefore = 2
  /\ last.size = 1
  /\ last.key \notin DOMAIN memoryCache


\* A value get would hand to the wrapper and the wrapper would return: the
\* key has an entry, its value is neither the empty string nor null, and the
\* time it was set plus its ttl has not passed.
Servable(key) ==
  /\ key \in DOMAIN memoryCache
  /\ memoryCache[key].value \notin {"", Null}
  /\ now <= memoryCache[key].setAt + memoryCache[key].ttlSeconds * 1000

\* A step in which a call of the wrapper returns without running the function.
ServedFromCache ==
  last' # last /\ last'.op = "withCache" /\ ~last'.ranFn

\* A step in which a call of the wrapper calls the function.
StartsFn(c) == awaiting[c].pc = "idle" /\ awaiting'[c].pc = "fn"

\* A step in which the function of a pending call settles.
FnSettled(c) == awaiting[c].pc = "fn" /\ awaiting'[c].pc = "idle"

\* A call that ran the function returned a value that replaced another
\* value, neither empty nor null, that was cached while the call was pending.
OverwroteOverlappingResult ==
  /\ last.op = "withCache" /\ last.ranFn /\ last.outcome = "resolved"
  /\ last.replaced # <<>>
  /\ last.replaced[1] \notin {"", Null}
  /\ last.replaced[1] # last.value
  /\ last.key \in DOMAIN memoryCache
  /\ memoryCache[last.key].value = last.value

\* C30 (as stated, for overlapping calls): a call of the wrapper that starts
\* while the function of another call with the same key is pending runs the
\* function too, it is never served from the cache.
C30_OverlappingCallsBothRun ==
  [][ServedFromCache =>
       \A c \in AwaitIds :
         awaiting[c].pc = "fn" => awaiting[c].key # last'.key]_vars

\* C30 (amended): withCache has no single-flight protection. A call is served
\* from the cache, without running the function, exactly when the value most
\* recently cached for its key is neither empty nor null and its ttl has not
\* passed; every other call runs the function, whether or not another call
\* with the same key is pending. Each function that returns caches its
\* result over whatever is cached for the key, with the ttl of the call,
\* and a function that throws caches nothing.
C30_NoSingleFlight ==
  [][/\ ServedFromCache =>
          /\ Servable(last'.key)
          /\ last'.value = memoryCache[last'.key].value
          /\ last'.outcome = "resolved"
          /\ UNCHANGED <<memoryCache, awaiting>>
     /\ \A c \in AwaitIds :
          /\ StartsFn(c) => ~Servable(awaiting'[c].key)
          /\ FnSettled(c) =>
               LET call == awaiting[c]
               IN  /\ last'.op = "withCache" /\ last'.ranFn
                   /\ last'.key = call.key
                   /\ IF last'.outcome = "resolved"
                        THEN /\ call.key \in DOMAIN memoryCache'
                             /\ memoryCache'[call.key].value = last'.value
                             /\ memoryCache'[call.key].setAt = now
                             /\ memoryCache'[call.key].ttlSeconds = call.ttl
                             /\ \A key \in DOMAIN memoryCache \ {call.key} :
                                  /\ key \in DOMAIN memoryCache'
                                  /\ memoryCache'[key] = memoryCache[key]
                        ELSE memoryCache' = memoryCache]_vars

\* Two calls with one key overlapped, both ran the function, and the one
\* that completed later replaced the value the other had cached.
C30_Witness == OverwroteOverlappingResult

====
